---- MODULE Spec2Model ----
(***************************************************************************)
(* A model of the dns-lookup-go client library: the polymorphic DNS record *)
(* decoder of models.go (DNSRecords.UnmarshalJSON, parseRecord,            *)
(* MarshalJSON, actualDNSType), the query options of options.go and the    *)
(* request/response path of client.go and the DNS lookup service (request, *)
(* parse, Get, GetRaw).                                                    *)
(*                                                                         *)
(* JSON texts are modelled as trees.  Every JSON value is a record         *)
(*   [k, s, n, ws, m]                                                      *)
(* k  the kind: "null" "bool" "num" "str" "arr" "obj", or "invalid" for a  *)
(*    text that is not JSON at all;                                        *)
(* s  the string of a "str", the fractional part of a "num" ("" when the   *)
(*    number is an integer), "true"/"false" of a "bool";                   *)
(* n  the integer part of a "num";                                         *)
(* ws TRUE when the text of the value holds insignificant white space;     *)
(* m  the members, in text order: [key, val] records (key "" in arrays).   *)
(***************************************************************************)
EXTENDS Integers, Sequences, FiniteSets, TLC

----------------------------------------------------------------------------
(* JSON values *)

JNull == [k |-> "null", s |-> "", n |-> 0, ws |-> FALSE, m |-> <<>>]
JInvalid == [k |-> "invalid", s |-> "", n |-> 0, ws |-> FALSE, m |-> <<>>]
JStr(x) == [k |-> "str", s |-> x, n |-> 0, ws |-> FALSE, m |-> <<>>]
JNum(i) == [k |-> "num", s |-> "", n |-> i, ws |-> FALSE, m |-> <<>>]
JFrac(i, f) == [k |-> "num", s |-> f, n |-> i, ws |-> FALSE, m |-> <<>>]
JBool(b) == [k |-> "bool", s |-> b, n |-> 0, ws |-> FALSE, m |-> <<>>]
Member(key, val) == [key |-> key, val |-> val]
JObj(members) == [k |-> "obj", s |-> "", n |-> 0, ws |-> FALSE, m |-> members]
JArr(vals) ==
    [k |-> "arr", s |-> "", n |-> 0, ws |-> FALSE,
     m |-> [i \in 1..Len(vals) |-> Member("", vals[i])]]
Spaced(v) == [v EXCEPT !.ws = TRUE]

RECURSIVE Valid(_)
Valid(v) == v.k # "invalid" /\ \A i \in 1..Len(v.m) : Valid(v.m[i].val)

RECURSIVE Compact(_)
Compact(v) ==
    [v EXCEPT !.ws = FALSE,
              !.m = [i \in 1..Len(v.m) |-> Member(v.m[i].key, Compact(v.m[i].val))]]

\* the value of the first member of v named key; JInvalid when there is none
Lookup(v, key) ==
    IF \E i \in 1..Len(v.m) : v.m[i].key = key
    THEN v.m[CHOOSE i \in 1..Len(v.m) :
                 v.m[i].key = key /\ \A j \in 1..(i - 1) : v.m[j].key # key].val
    ELSE JInvalid
Keys(v) == [i \in 1..Len(v.m) |-> v.m[i].key]

----------------------------------------------------------------------------
(* errors *)

NoErr == [e |-> "nil", value |-> "", field |-> ""]
ErrUnsupportedDNSType == [e |-> "unknown DNS type", value |-> "", field |-> ""]
SyntaxError == [e |-> "SyntaxError", value |-> "", field |-> ""]
UnmarshalTypeError(value, field) ==
    [e |-> "UnmarshalTypeError", value |-> value, field |-> field]

----------------------------------------------------------------------------
(* encoding/json decoding of a JSON value into a Go struct, as json.Unmarshal
   does it for the field types the record shapes use.  A decoded Go value is
   written with the JSON constructors: a string as JStr, an int as JNum, a
   float64 as JFrac, a slice as JArr, a nil slice as JNull and a Time as an
   Instant. *)

Field(name, type) == [name |-> name, type |-> type]

\* the name encoding/json reports in UnmarshalTypeError.Value
ValueName(v) ==
    CASE v.k = "str" -> "string"
      [] v.k = "num" -> "number"
      [] v.k = "arr" -> "array"
      [] v.k = "obj" -> "object"
      [] OTHER -> "bool"

(* models.go: Time. A timestamp text is known by its parts; the hours of the
   model are such that no zone offset crosses midnight *)

VARIABLES
    local,   \* time.Local, the time zone of the process
    tm,      \* a Time value
    told,    \* tm before the last UnmarshalJSON
    lit,     \* the JSON text given to the last UnmarshalJSON
    terr,    \* the error the last UnmarshalJSON returned
    enc,     \* the JSON text the last MarshalJSON returned
    tstep    \* the last operation on tm: "new", "Unmarshal", "Marshal"

tvars == <<local, tm, told, lit, terr, enc, tstep>>

Stamp(text, date, hour, tail, zone) ==
    [text |-> text, date |-> date, hour |-> hour, tail |-> tail, zone |-> zone]

\* the texts that have the layout "2006-01-02 15:04:05 MST" and a date and a
\* time of day that exist
Stamps ==
    {Stamp("2006-01-02 15:04:05 EST", "2006-01-02", 15, "04:05", "EST"),
     Stamp("2006-01-02 12:04:05 UTC", "2006-01-02", 12, "04:05", "UTC"),
     Stamp("2022-07-12 11:46:25 UTC", "2022-07-12", 11, "46:25", "UTC"),
     Stamp("2022-07-12 11:46:25 EST", "2022-07-12", 11, "46:25", "EST"),
     Stamp("2022-07-12 12:46:25 EDT", "2022-07-12", 12, "46:25", "EDT"),
     Stamp("2022-07-12 11:46:25 CET", "2022-07-12", 11, "46:25", "CET"),
     Stamp("0001-01-01 00:00:00 UTC", "0001-01-01", 0, "00:00", "UTC"),
     Stamp("0001-01-01 00:00:00 CET", "0001-01-01", 0, "00:00", "CET")}

\* the timestamps of the model that time.Parse accepts for the layout
\* "2006-01-02 15:04:05 MST"
ConformingTimes == {s.text : s \in Stamps}
StampOf(text) == CHOOSE s \in Stamps : s.text = text

\* the locations a process may have as time.Local
Locations == {"UTC", "America/New_York"}

\* Location.lookup: the zone in force in a location on a date
lookup(location, date) ==
    CASE location = "America/New_York" /\ date = "2022-07-12" ->
           [name |-> "EDT", offset |-> 0 - 4]
      [] location = "America/New_York" -> [name |-> "EST", offset |-> 0 - 5]
      [] OTHER -> [name |-> "UTC", offset |-> 0]

\* Location.lookupName: the offset of a zone of that name in the location,
\* whether in force on the date or not
lookupName(location, name) ==
    CASE location = "America/New_York" /\ name = "EST" -> [ok |-> TRUE, offset |-> 0 - 5]
      [] location = "America/New_York" /\ name = "EDT" -> [ok |-> TRUE, offset |-> 0 - 4]
      [] OTHER -> [ok |-> FALSE, offset |-> 0]

\* *time.Location of a Time: nil (UTC), Local, or a zone made up by time.Parse
UTCLoc == [kind |-> "UTC", name |-> "UTC", offset |-> 0]
LocalLoc == [kind |-> "Local", name |-> "", offset |-> 0]
FixedZone(name, offset) == [kind |-> "fixed", name |-> name, offset |-> offset]

\* a Time: the instant as date, hour and minutes:seconds in UTC, and the location
Instant(date, hour, tail, loc) == [date |-> date, hour |-> hour, tail |-> tail, loc |-> loc]

\* var emptyTime Time
emptyTime == Instant("0001-01-01", 0, "00:00", UTCLoc)

\* time.Parse("2006-01-02 15:04:05 MST", str): UTC is UTC; a zone that
\* time.Local defines gets that offset and the location Local; any other zone
\* is made up with offset 0
timeParse(str) ==
    IF str \notin ConformingTimes
    THEN [ok |-> FALSE, t |-> emptyTime]
    ELSE LET s == StampOf(str)
         IN [ok |-> TRUE,
             t |-> CASE s.zone = "UTC" -> Instant(s.date, s.hour, s.tail, UTCLoc)
                     [] lookupName(local, s.zone).ok ->
                          Instant(s.date, s.hour - lookupName(local, s.zone).offset,
                                  s.tail, LocalLoc)
                     [] OTHER -> Instant(s.date, s.hour, s.tail, FixedZone(s.zone, 0))]

\* the zone a Time is shown in
zoneOf(t) ==
    CASE t.loc.kind = "UTC" -> [name |-> "UTC", offset |-> 0]
      [] t.loc.kind = "Local" -> lookup(local, t.date)
      [] OTHER -> [name |-> t.loc.name, offset |-> t.loc.offset]

\* time.Time.Format("2006-01-02 15:04:05 MST")
timeFormat(t) ==
    (CHOOSE s \in Stamps :
         /\ s.date = t.date
         /\ s.hour = t.hour + zoneOf(t).offset
         /\ s.tail = t.tail
         /\ s.zone = zoneOf(t).name).text

\* Time.UnmarshalJSON: the text must be a string (null reads as ""); "" is the
\* zero time, any other string must have the layout
TimeUnmarshalJSON(v, old, name) ==
    CASE v.k \notin {"str", "null"} ->
           [val |-> old, err |-> UnmarshalTypeError(ValueName(v), name)]
      [] v.k = "null" \/ v.s = "" -> [val |-> emptyTime, err |-> NoErr]
      [] timeParse(v.s).ok -> [val |-> timeParse(v.s).t, err |-> NoErr]
      [] OTHER -> [val |-> old, err |-> [e |-> "parsing time", value |-> v.s, field |-> name]]

\* Time.MarshalJSON without the test for the empty time
TimeMarshalJSONNoEmpty(t) == JStr(timeFormat(t))

\* Time.MarshalJSON
TimeMarshalJSON(t) == IF t = emptyTime THEN JStr("") ELSE JStr(timeFormat(t))

\* the zero value of a field
Zero(type) ==
    CASE type = "string" -> JStr("")
      [] type = "Time" -> emptyTime
      [] type = "int" -> JNum(0)
      [] type = "float64" -> JNum(0)
      [] OTHER -> JNull

ElemType(type) == IF type = "[]string" THEN "string" ELSE "int"

\* a scalar (string, int, float64) field or slice element
decodeScalar(type, v, old, name) ==
    CASE v.k = "null" -> [val |-> old, err |-> NoErr]
      [] type = "string" /\ v.k = "str" -> [val |-> JStr(v.s), err |-> NoErr]
      [] type = "int" /\ v.k = "num" /\ v.s = "" -> [val |-> JNum(v.n), err |-> NoErr]
      [] type = "float64" /\ v.k = "num" -> [val |-> JFrac(v.n, v.s), err |-> NoErr]
      [] OTHER -> [val |-> old, err |-> UnmarshalTypeError(ValueName(v), name)]

FirstErr(errs) ==
    IF \E i \in 1..Len(errs) : errs[i] # NoErr
    THEN errs[CHOOSE i \in 1..Len(errs) :
                  errs[i] # NoErr /\ \A j \in 1..(i - 1) : errs[j] = NoErr]
    ELSE NoErr

decodeField(type, v, old, name) ==
    IF type \in {"string", "int", "float64"}
    THEN decodeScalar(type, v, old, name)
    ELSE CASE v.k = "null" -> [val |-> old, err |-> NoErr]
           [] v.k = "arr" ->
                LET ds == [i \in 1..Len(v.m) |->
                              decodeScalar(ElemType(type), v.m[i].val,
                                           Zero(ElemType(type)), name)]
                IN [val |-> JArr([i \in 1..Len(v.m) |-> ds[i].val]),
                    err |-> FirstErr([i \in 1..Len(v.m) |-> ds[i].err])]
           [] OTHER -> [val |-> old, err |-> UnmarshalTypeError(ValueName(v), name)]

FieldNames(fields) == {fields[i].name : i \in 1..Len(fields)}
FieldIndex(fields, key) ==
    IF key \in FieldNames(fields)
    THEN CHOOSE i \in 1..Len(fields) : fields[i].name = key
    ELSE 0
ZeroStruct(fields) ==
    [name \in FieldNames(fields) |-> Zero(fields[FieldIndex(fields, name)].type)]

\* the members of an object are decoded in text order; a member whose key
\* names no field is skipped, the first error is kept and decoding goes on
RECURSIVE decodeMembers(_, _, _, _)
decodeMembers(m, i, fields, acc) ==
    IF i > Len(m) THEN acc
    ELSE LET f == FieldIndex(fields, m[i].key) IN
         IF f = 0 THEN decodeMembers(m, i + 1, fields, acc)
         ELSE LET name == fields[f].name
                  d == decodeField(fields[f].type, m[i].val, acc.val[name], name)
              IN decodeMembers(m, i + 1, fields,
                     [val |-> [acc.val EXCEPT ![name] = d.val],
                      err |-> IF acc.err = NoErr THEN d.err ELSE acc.err])

\* json.Unmarshal(raw, &struct) of a syntactically valid raw
DecodeStruct(v, fields) ==
    CASE v.k = "null" -> [val |-> ZeroStruct(fields), err |-> NoErr]
      [] v.k = "obj" ->
           decodeMembers(v.m, 1, fields, [val |-> ZeroStruct(fields), err |-> NoErr])
      [] OTHER -> [val |-> ZeroStruct(fields),
                   err |-> UnmarshalTypeError(ValueName(v), "")]

----------------------------------------------------------------------------
(* models.go: the record shapes *)

commonFields ==
    <<Field("type", "int"), Field("dnsType", "string"), Field("name", "string"),
      Field("ttl", "int"), Field("rRsetType", "int"), Field("rawText", "string")>>

ARecord == commonFields \o <<Field("address", "string")>>
AAAARecord == commonFields \o <<Field("address", "string")>>
NSRecord == commonFields \o <<Field("target", "string")>>
MXRecord == commonFields \o <<Field("target", "string"), Field("priority", "int")>>
MDRecord ==
    commonFields \o <<Field("additionalName", "string"), Field("mailAgent", "string")>>
MFRecord ==
    commonFields \o <<Field("additionalName", "string"), Field("mailAgent", "string")>>
MBRecord ==
    commonFields \o <<Field("additionalName", "string"), Field("mailbox", "string")>>
SOARecord ==
    commonFields \o
    <<Field("admin", "string"), Field("host", "string"), Field("expire", "int"),
      Field("minimum", "int"), Field("refresh", "int"), Field("retry", "int"),
      Field("serial", "int")>>
TXTRecord == commonFields \o <<Field("strings", "[]string")>>
CAARecord ==
    commonFields \o
    <<Field("flags", "int"), Field("tag", "string"), Field("value", "string")>>
CNAMERecord == commonFields \o <<Field("alias", "string"), Field("target", "string")>>
DNAMERecord == commonFields \o <<Field("alias", "string"), Field("target", "string")>>
DNSKEYRecord ==
    commonFields \o
    <<Field("algorithm", "int"), Field("flags", "int"), Field("footprint", "int"),
      Field("key", "[]string"), Field("protocol", "int"),
      Field("publicKey", "string")>>
NSEC3PARAMRecord ==
    commonFields \o
    <<Field("flags", "int"), Field("hashAlgorithm", "int"),
      Field("iterations", "int"), Field("salt", "[]string")>>
DSRecord ==
    commonFields \o
    <<Field("algorithm", "int"), Field("digest", "[]string"),
      Field("digestID", "int"), Field("footprint", "int")>>
NSECRecord == commonFields \o <<Field("next", "string"), Field("types", "[]int")>>
PTRRecord == commonFields \o <<Field("target", "string")>>
SRVRecord ==
    commonFields \o
    <<Field("port", "int"), Field("priority", "int"), Field("target", "string"),
      Field("weight", "int")>>
LOCRecord ==
    commonFields \o
    <<Field("altitude", "float64"), Field("hPrecision", "float64"),
      Field("latitude", "float64"), Field("longitude", "float64"),
      Field("size", "float64"), Field("vPrecision", "float64")>>
NAPTRRecord ==
    commonFields \o
    <<Field("flags", "string"), Field("order", "int"), Field("preference", "int"),
      Field("regexp", "string"), Field("replacement", "string"),
      Field("service", "string")>>
HINFORecord == commonFields \o <<Field("cpu", "string"), Field("os", "string")>>
RPRecord == commonFields \o <<Field("mailbox", "string"), Field("textDomain", "string")>>
DLVRecord ==
    commonFields \o
    <<Field("algorithm", "int"), Field("digest", "[]string"),
      Field("digestID", "int"), Field("footprint", "int")>>
SSHFPRecord ==
    commonFields \o
    <<Field("algorithm", "int"), Field("digestType", "int"),
      Field("fingerPrint", "[]string")>>
DHCIDRecord == commonFields \o <<Field("data", "[]string")>>
TLSARecord ==
    commonFields \o
    <<Field("certificateAssociationData", "[]string"),
      Field("certificateUsage", "int"), Field("matchingType", "int"),
      Field("selector", "int")>>
NSAPRecord == commonFields \o <<Field("address", "string")>>
NULLRecord == commonFields \o <<Field("data", "[]string")>>

\* a nil interface: no concrete shape
NilShape == <<>>

actualDNSType(dnsType) ==
    CASE dnsType = "A" -> ARecord
      [] dnsType = "AAAA" -> AAAARecord
      [] dnsType = "NS" -> NSRecord
      [] dnsType = "MX" -> MXRecord
      [] dnsType = "MD" -> MDRecord
      [] dnsType = "MF" -> MFRecord
      [] dnsType = "MB" -> MBRecord
      [] dnsType = "SOA" -> SOARecord
      [] dnsType = "TXT" -> TXTRecord
      [] dnsType = "CAA" -> CAARecord
      [] dnsType = "CNAME" -> CNAMERecord
      [] dnsType = "DNAME" -> DNAMERecord
      [] dnsType = "DNSKEY" -> DNSKEYRecord
      [] dnsType = "NSEC3PARAM" -> NSEC3PARAMRecord
      [] dnsType = "NSEC" -> NSECRecord
      [] dnsType = "DS" -> DSRecord
      [] dnsType = "PTR" -> PTRRecord
      [] dnsType = "SRV" -> SRVRecord
      [] dnsType = "LOC" -> LOCRecord
      [] dnsType = "NAPTR" -> NAPTRRecord
      [] dnsType = "HINFO" -> HINFORecord
      [] dnsType = "RP" -> RPRecord
      [] dnsType = "DLV" -> DLVRecord
      [] dnsType = "SSHFP" -> SSHFPRecord
      [] dnsType = "DHCID" -> DHCIDRecord
      [] dnsType = "TLSA" -> TLSARecord
      [] dnsType = "NSAP" -> NSAPRecord
      [] dnsType = "NULL" -> NULLRecord
      [] OTHER -> NilShape

\* the typed slices of DNSRecords, one per case of the switch in parseRecord
TypedSlices ==
    {"A", "AAAA", "NS", "MX", "MD", "MF", "MB", "SOA", "TXT", "CAA", "CNAME",
     "DNAME", "DNSKEY", "NSEC", "NSEC3PARAM", "DS", "PTR", "SRV", "LOC", "NAPTR",
     "HINFO", "RP", "DLV", "SSHFP", "DHCID", "TLSA", "NSAP", "NULL"}

\* var v DNSRecords
EmptyRecords == [All |-> <<>>, typed |-> [t \in TypedSlices |-> <<>>]]

DNSRecord(cf, raw, parseError) ==
    [CommonFields |-> cf, Raw |-> raw, ParseError |-> parseError]

\* the switch that ends parseRecord
appendTyped(r, dnsType, actual) ==
    IF dnsType \in TypedSlices
    THEN [r EXCEPT !.typed[dnsType] = Append(@, actual)]
    ELSE r

\* parseRecord with the typed append done before the error of the second
\* decode is looked at
parseRecordAppendsFirst(r, record) ==
    LET obj == DecodeStruct(record, commonFields) IN
    IF obj.err # NoErr
    THEN [r |-> r, rec |-> DNSRecord(ZeroStruct(commonFields), record, obj.err)]
    ELSE LET shape == actualDNSType(obj.val["dnsType"].s) IN
         IF shape = NilShape
         THEN [r |-> r, rec |-> DNSRecord(obj.val, record, ErrUnsupportedDNSType)]
         ELSE LET actual == DecodeStruct(record, shape) IN
              [r |-> appendTyped(r, obj.val["dnsType"].s, actual.val),
               rec |-> DNSRecord(obj.val, record, actual.err)]

\* parseRecord that returns the record of an unknown type without the sentinel
parseRecordNoSentinel(r, record) ==
    LET obj == DecodeStruct(record, commonFields) IN
    IF obj.err # NoErr
    THEN [r |-> r, rec |-> DNSRecord(ZeroStruct(commonFields), record, obj.err)]
    ELSE LET shape == actualDNSType(obj.val["dnsType"].s) IN
         IF shape = NilShape
         THEN [r |-> r, rec |-> DNSRecord(obj.val, record, NoErr)]
         ELSE LET actual == DecodeStruct(record, shape) IN
              IF actual.err # NoErr
              THEN [r |-> r, rec |-> DNSRecord(obj.val, record, actual.err)]
              ELSE [r |-> appendTyped(r, obj.val["dnsType"].s, actual.val),
                    rec |-> DNSRecord(obj.val, record, NoErr)]

\* parseRecord appends to the typed slice of r and returns the DNSRecord
parseRecord(r, record) ==
    LET obj == DecodeStruct(record, commonFields) IN
    IF obj.err # NoErr
    THEN [r |-> r, rec |-> DNSRecord(ZeroStruct(commonFields), record, obj.err)]
    ELSE LET shape == actualDNSType(obj.val["dnsType"].s) IN
         IF shape = NilShape
         THEN [r |-> r, rec |-> DNSRecord(obj.val, record, ErrUnsupportedDNSType)]
         ELSE LET actual == DecodeStruct(record, shape) IN
              IF actual.err # NoErr
              THEN [r |-> r, rec |-> DNSRecord(obj.val, record, actual.err)]
              ELSE [r |-> appendTyped(r, obj.val["dnsType"].s, actual.val),
                    rec |-> DNSRecord(obj.val, record, NoErr)]

\* splitArray that takes a single value for an array of one element
splitArrayLenient(data) ==
    CASE ~Valid(data) -> [raw |-> <<>>, err |-> SyntaxError]
      [] data.k = "null" -> [raw |-> <<>>, err |-> NoErr]
      [] data.k = "arr" ->
           [raw |-> [i \in 1..Len(data.m) |-> data.m[i].val], err |-> NoErr]
      [] OTHER -> [raw |-> <<data>>, err |-> NoErr]

\* json.Unmarshal(data, &raw) with raw a []json.RawMessage: the text is
\* checked as a whole first; null leaves raw nil; an array is split into the
\* texts of its elements; any other value is a type error
splitArray(data) ==
    CASE ~Valid(data) -> [raw |-> <<>>, err |-> SyntaxError]
      [] data.k = "null" -> [raw |-> <<>>, err |-> NoErr]
      [] data.k = "arr" ->
           [raw |-> [i \in 1..Len(data.m) |-> data.m[i].val], err |-> NoErr]
      [] OTHER -> [raw |-> <<>>, err |-> UnmarshalTypeError(ValueName(data), "")]

RECURSIVE parseRecords(_, _, _)
parseRecords(r, raw, i) ==
    IF i > Len(raw) THEN r
    ELSE LET p == parseRecord(r, raw[i])
         IN parseRecords([p.r EXCEPT !.All = Append(@, p.rec)], raw, i + 1)

\* UnmarshalJSON that gives up at the first record that did not parse
UnmarshalJSONFailFast(r, data) ==
    LET split == splitArray(data)
        res == parseRecords(r, split.raw, 1)
        bad == {i \in 1..Len(res.All) : res.All[i].ParseError # NoErr}
    IN IF split.err # NoErr THEN [r |-> r, err |-> split.err]
       ELSE IF bad # {}
            THEN [r |-> r, err |-> res.All[CHOOSE i \in bad : \A j \in bad : i <= j].ParseError]
            ELSE [r |-> res, err |-> NoErr]

\* UnmarshalJSON that empties the collection before it appends
UnmarshalJSONResets(r, data) ==
    LET split == splitArray(data) IN
    IF split.err # NoErr THEN [r |-> r, err |-> split.err]
    ELSE [r |-> parseRecords(EmptyRecords, split.raw, 1), err |-> NoErr]

UnmarshalJSON(r, data) ==
    LET split == splitArray(data) IN
    IF split.err # NoErr THEN [r |-> r, err |-> split.err]
    ELSE [r |-> parseRecords(r, split.raw, 1), err |-> NoErr]

\* json.Marshal of an error value held in an interface: nil is null, the
\* errors.New sentinel has no exported field, *json.UnmarshalTypeError has
\* Value, Type, Offset, Struct and Field (the byte offset is not modelled)
marshalError(e) ==
    CASE e = NoErr -> JNull
      [] e.e = "UnmarshalTypeError" ->
           JObj(<<Member("Value", JStr(e.value)), Member("Type", JObj(<<>>)),
                  Member("Offset", JNum(0)), Member("Struct", JStr("")),
                  Member("Field", JStr(e.field))>>)
      [] OTHER -> JObj(<<>>)

marshalStruct(val, fields) ==
    JObj([i \in 1..Len(fields) |-> Member(fields[i].name, val[fields[i].name])])

\* a DNSRecord written as its raw text alone
marshalDNSRecordRawOnly(rec) == Compact(rec.Raw)

\* json.Marshal of one DNSRecord; a RawMessage is written compacted
marshalDNSRecord(rec) ==
    JObj(<<Member("CommonFields", marshalStruct(rec.CommonFields, commonFields)),
           Member("raw", Compact(rec.Raw)),
           Member("parseError", marshalError(rec.ParseError))>>)

\* json.Marshal(r.All); All is nil until the first append
marshalAll(all) ==
    IF Len(all) = 0 THEN JNull
    ELSE JArr([i \in 1..Len(all) |-> marshalDNSRecord(all[i])])

\* MarshalJSON without the test for an empty All
MarshalJSONNoEmptyCheck(r) == marshalAll(r.All)

MarshalJSON(r) ==
    IF Len(r.All) = 0 THEN JArr(<<>>) ELSE marshalAll(r.All)

----------------------------------------------------------------------------
(* the decoder's inputs *)

MaxLen == 3
MaxAll == 3

envelope(type, dnsType, ttl) ==
    <<Member("type", JNum(type)), Member("dnsType", dnsType),
      Member("name", JStr("whoisxmlapi.com.")), Member("ttl", ttl),
      Member("rRsetType", JNum(type)), Member("rawText", JStr("whoisxmlapi.com. IN"))>>

\* an A record, written over several lines
RecA1 ==
    Spaced(JObj(envelope(1, JStr("A"), JNum(300))
                \o <<Member("address", JStr("172.67.71.123"))>>))
\* another A record, written compactly
RecA2 ==
    JObj(envelope(1, JStr("A"), JNum(300))
         \o <<Member("address", JStr("104.26.13.210"))>>)
\* an NS record with a member no field of NSRecord names
RecNS ==
    Spaced(JObj(envelope(2, JStr("NS"), JNum(21600))
                \o <<Member("additionalName", JStr("elle.ns.cloudflare.com.")),
                     Member("target", JStr("elle.ns.cloudflare.com."))>>))
\* an A record whose address is a number: the envelope decodes, ARecord does not
RecBadBody ==
    JObj(envelope(1, JStr("A"), JNum(300)) \o <<Member("address", JNum(7))>>)
\* an A record whose ttl is a string: the envelope does not decode
RecBadEnvelope ==
    JObj(envelope(1, JStr("A"), JStr("300"))
         \o <<Member("address", JStr("172.67.71.123"))>>)
\* a record of a type the library does not know
RecUnknown ==
    Spaced(JObj(envelope(99, JStr("SPF"), JNum(60))
                \o <<Member("strings", JArr(<<JStr("v=spf1")>>))>>))
\* a record without dnsType
RecNoTag == JObj(<<Member("name", JStr("whoisxmlapi.com.")), Member("ttl", JNum(5))>>)

Elements == {RecA1, RecA2, RecNS, RecBadBody, RecBadEnvelope, RecUnknown,
             RecNoTag, JNull, JStr("A")}

SeqsUpTo(S, n) == UNION {[1..k -> S] : k \in 0..n}

\* texts whose top level is not an array, or that are not JSON
NonArrays == {JNull, JStr("[]"), JNum(1), JBool("true"), RecA1, JInvalid,
              JArr(<<RecA1, JInvalid>>)}

Min(a, b) == IF a < b THEN a ELSE b

\* the texts given to UnmarshalJSON: arrays of at most n elements, and the rest
Inputs(n) == {JArr(es) : es \in SeqsUpTo(Elements, Min(n, MaxLen))} \cup NonArrays

----------------------------------------------------------------------------
(* the decoder's state: one DNSRecords value and what was last done to it *)

VARIABLES
    r,      \* the DNSRecords value
    op,     \* the last operation: "new", "Unmarshal", "Marshal", "Redecode"
    pre,    \* r before the last UnmarshalJSON
    data,   \* the text given to the last UnmarshalJSON
    err,    \* the error the last UnmarshalJSON returned
    out,    \* the text the last MarshalJSON returned
    src     \* the DNSRecords value that MarshalJSON encoded

dvars == <<r, op, pre, data, err, out, src>>

VARIABLES
    cfg,     \* the Client: apiKey, baseURL, userAgent
    pc,      \* where the call is: "idle", "built", "received", "read", "returned", "done"
    call,    \* the call: mode ("Get", "GetRaw"), domainName, opts
    query,   \* RawQuery of the request
    srv,     \* what the server answers: doc, sends, declared
    httpResp,    \* the http.Response Do got
    buf,     \* the bytes.Buffer Do copies the body into
    doErr,   \* err in Do
    result,  \* what Get or GetRaw returned: dnsLookupResponse, resp, err
    hist     \* what happened during the call: exchanges made, the causes of a
             \* failed exchange and a failed read, closes made, whether the
             \* close failed

cvars == <<cfg, pc, call, query, srv, httpResp, buf, doErr, result, hist>>

VARIABLES
    calls,   \* for each concurrent caller, the locals of its call
    urls     \* the url.URL objects: that of the service and one per request

kvars == <<calls, urls>>

VARIABLES
    values,   \* a url.Values that options are applied to
    vprev,    \* values before the last option
    applied   \* the last option applied to values

ovars == <<values, vprev, applied>>
vars == <<r, op, pre, data, err, out, src, cfg, pc, call, query, srv, httpResp, buf, doErr, result, hist, calls, urls, local, tm, told, lit, terr, enc, tstep, values, vprev, applied>>
\* what the actions of each part leave alone
nonDecoder == <<cvars, kvars, tvars, ovars>>
nonClient == <<dvars, kvars, tvars, ovars>>
nonConcurrent == <<dvars, cvars, tvars, ovars>>
nonTime == <<dvars, cvars, kvars, ovars>>
nonOption == <<dvars, cvars, kvars, tvars>>

DecoderInit ==
    /\ r = EmptyRecords
    /\ op = "new"
    /\ pre = EmptyRecords
    /\ data = JInvalid
    /\ err = NoErr
    /\ out = JInvalid
    /\ src = EmptyRecords

\* var v DNSRecords
NewRecords ==
    /\ op # "new"
    /\ r' = EmptyRecords
    /\ op' = "new"
    /\ pre' = EmptyRecords
    /\ data' = JInvalid
    /\ err' = NoErr
    /\ out' = JInvalid
    /\ src' = EmptyRecords
    /\ UNCHANGED nonDecoder

\* the number of records a text holds
Elems(d) == IF d.k = "arr" THEN Len(d.m) ELSE 0

\* r.UnmarshalJSON(d)
Unmarshal(d) ==
    /\ op \in {"new", "Unmarshal"}
    /\ Len(r.All) + Elems(d) <= MaxAll
    /\ LET res == UnmarshalJSON(r, d) IN
         /\ r' = res.r
         /\ err' = res.err
    /\ pre' = r
    /\ data' = d
    /\ op' = "Unmarshal"
    /\ UNCHANGED <<out, src>>
    /\ UNCHANGED nonDecoder

\* r.MarshalJSON()
Marshal ==
    /\ op \in {"new", "Unmarshal"}
    /\ out' = MarshalJSON(r)
    /\ src' = r
    /\ op' = "Marshal"
    /\ pre' = EmptyRecords
    /\ data' = JInvalid
    /\ err' = NoErr
    /\ UNCHANGED r
    /\ UNCHANGED nonDecoder

\* the text MarshalJSON returned is decoded into a new DNSRecords value
Redecode ==
    /\ op = "Marshal"
    /\ LET res == UnmarshalJSON(EmptyRecords, out) IN
         /\ r' = res.r
         /\ err' = res.err
    /\ pre' = EmptyRecords
    /\ data' = out
    /\ op' = "Redecode"
    /\ UNCHANGED <<out, src>>
    /\ UNCHANGED nonDecoder

DecoderNext ==
    \/ NewRecords
    \/ \E d \in Inputs(MaxAll - Len(r.All)) : Unmarshal(d)
    \/ Marshal
    \/ Redecode

----------------------------------------------------------------------------
(* options.go: the query parameters (url.Values) and the options *)

QueryKeys == {"apiKey", "callback", "domainName", "outputFormat", "type"}
\* the keys as url.Values.Encode sorts them
SortedKeys == <<"apiKey", "callback", "domainName", "outputFormat", "type">>

\* url.Values{}: every key has the values given for it, in order
NoValues == [key \in QueryKeys |-> <<>>]
\* url.Values.Add in the place of Set
SetAdds(v, key, value) == [v EXCEPT ![key] = Append(@, value)]

\* url.Values.Set
Set(v, key, value) == [v EXCEPT ![key] = <<value>>]

\* strings.ToUpper on the strings of the model
ToUpper(str) ==
    CASE str = "xml" -> "XML"
      [] str = "json" -> "JSON"
      [] str = "a,mx" -> "A,MX"
      [] str = "ns" -> "NS"
      [] OTHER -> str

OptionOutputFormat(outputFormat) == [fn |-> "OptionOutputFormat", arg |-> outputFormat]
OptionType(value) == [fn |-> "OptionType", arg |-> value]
OptionCallback(value) == [fn |-> "OptionCallback", arg |-> value]

\* opt(v): the closure each constructor returns
Apply(opt, v) ==
    CASE opt.fn = "OptionOutputFormat" -> Set(v, "outputFormat", ToUpper(opt.arg))
      [] opt.fn = "OptionType" -> Set(v, "type", ToUpper(opt.arg))
      [] OTHER -> Set(v, "callback", opt.arg)

\* url.Values.Encode: key=value pairs sorted by key
RECURSIVE encodeFrom(_, _)
encodeFrom(v, i) ==
    IF i > Len(SortedKeys) THEN <<>>
    ELSE [j \in 1..Len(v[SortedKeys[i]]) |->
             [key |-> SortedKeys[i], value |-> v[SortedKeys[i]][j]]]
         \o encodeFrom(v, i + 1)
Encode(v) == encodeFrom(v, 1)

\* URL.Query(): the pairs of RawQuery parsed back into url.Values
RECURSIVE queryFrom(_, _, _)
queryFrom(raw, i, v) ==
    IF i > Len(raw) THEN v
    ELSE queryFrom(raw, i + 1, [v EXCEPT ![raw[i].key] = Append(@, raw[i].value)])
Query(raw) == queryFrom(raw, 1, NoValues)

----------------------------------------------------------------------------
(* the DNS lookup service: request, parse, Get, GetRaw; client.go: Do,
   checkResponse *)

\* newRequest: the RawQuery of a request that carries only the API key
newRequest(apiKey) == Encode(Set(NoValues, "apiKey", apiKey))

RECURSIVE applyAll(_, _, _)
applyAll(opts, i, q) ==
    IF i > Len(opts) THEN q ELSE applyAll(opts, i + 1, Apply(opts[i], q))

\* request from req.URL.Query() to the new RawQuery: domainName and type=_all
\* are set, then the options are applied in order
withOptions(rawQuery, domainName, opts) ==
    LET q0 == Query(rawQuery)
        q1 == Set(q0, "domainName", domainName)
        q2 == Set(q1, "type", "_all")
    IN Encode(applyAll(opts, 1, q2))

\* request with the defaults written after the options instead of before them
requestQueryDefaultsLast(apiKey, domainName, opts) ==
    LET q0 == applyAll(opts, 1, Query(newRequest(apiKey)))
        q1 == Set(q0, "domainName", domainName)
        q2 == Set(q1, "type", "_all")
    IN Encode(q2)

\* request, up to the call of Do: the RawQuery of the request that is sent
requestQuery(apiKey, domainName, opts) ==
    withOptions(newRequest(apiKey), domainName, opts)

\* Get with the JSON format put before the caller's options
optsJSONFirst(opts) == <<OptionOutputFormat("JSON")>> \o opts

\* the options Get hands to request
optsJSON(opts) == opts \o <<OptionOutputFormat("JSON")>>

\* errors of the client
NoError == [kind |-> "nil", cause |-> "", code |-> "", msg |-> "", status |-> 0]
\* fmt.Errorf("<kind>: %w", cause)
Wrapped(kind, cause) ==
    [kind |-> kind, cause |-> cause, code |-> "", msg |-> "", status |-> 0]
\* &ErrorMessage{Code, Message}
ErrorMessage(code, msg) ==
    [kind |-> "ErrorMessage", cause |-> "", code |-> code, msg |-> msg, status |-> 0]
\* &ErrorResponse{Response: r}: Message is left empty
ErrorResponse(status) ==
    [kind |-> "ErrorResponse", cause |-> "", code |-> "", msg |-> "", status |-> status]

\* checkResponse with the upper end of the range left out
checkResponseBelow299(status) ==
    IF status >= 200 /\ status < 299 THEN NoError ELSE ErrorResponse(status)

\* ErrorResponse.Error: the text of the error, in pieces
ErrorResponseError(e) ==
    IF e.msg # ""
    THEN <<"API failed with status code: ", e.status, " (", e.msg, ")">>
    ELSE <<"API failed with status code: ", e.status>>

\* checkResponse that fills in Message
checkResponseWithMessage(status) ==
    IF status >= 200 /\ status <= 299
    THEN NoError
    ELSE [ErrorResponse(status) EXCEPT !.msg = "body"]

\* checkResponse
checkResponse(status) ==
    IF status >= 200 /\ status <= 299 THEN NoError ELSE ErrorResponse(status)

\* a body as bytes: got says how much of the text doc the bytes hold
Bytes(doc, got) == [doc |-> doc, got |-> got]
NoBytes == Bytes(JInvalid, "none")

Audit == <<Field("createdDate", "Time"), Field("updatedDate", "Time")>>
DNSLookupResponseFields ==
    <<Field("domainName", "string"), Field("types", "[]int"),
      Field("dnsTypes", "string")>>
ErrorMessageFields == <<Field("errorCode", "string"), Field("msg", "string")>>

\* a struct-valued member of v: absent and null leave the zero value
decodeSub(v, key, fields) ==
    IF v.k = "obj" /\ Lookup(v, key) # JInvalid
    THEN DecodeStruct(Lookup(v, key), fields)
    ELSE [val |-> ZeroStruct(fields), err |-> NoErr]

\* the members of the audit object are decoded in text order; a Time field
\* is decoded by Time.UnmarshalJSON, which encoding/json calls for it
RECURSIVE decodeAuditMembers(_, _, _)
decodeAuditMembers(m, i, acc) ==
    IF i > Len(m) THEN acc
    ELSE LET f == FieldIndex(Audit, m[i].key) IN
         IF f = 0 THEN decodeAuditMembers(m, i + 1, acc)
         ELSE LET name == Audit[f].name
                  d == TimeUnmarshalJSON(m[i].val, acc.val[name], name)
              IN decodeAuditMembers(m, i + 1,
                     [val |-> [acc.val EXCEPT ![name] = d.val],
                      err |-> IF acc.err = NoErr THEN d.err ELSE acc.err])

\* the audit member of v: absent and null leave the zero value
decodeAudit(v) ==
    CASE v.k # "obj" \/ Lookup(v, "audit").k \in {"invalid", "null"} ->
           [val |-> ZeroStruct(Audit), err |-> NoErr]
      [] Lookup(v, "audit").k = "obj" ->
           decodeAuditMembers(Lookup(v, "audit").m, 1,
                              [val |-> ZeroStruct(Audit), err |-> NoErr])
      [] OTHER -> [val |-> ZeroStruct(Audit),
                   err |-> UnmarshalTypeError(ValueName(Lookup(v, "audit")), "")]

\* var response DNSLookupResponse
ZeroLookup ==
    [DomainName |-> JStr(""), Types |-> JNull, DNSTypes |-> JStr(""),
     Audit |-> ZeroStruct(Audit), DNSRecords |-> EmptyRecords]

\* DNSLookupResponse from the decoded parts
lookupOf(flat, audit, recs) ==
    [val |-> [DomainName |-> flat.val["domainName"],
              Types |-> flat.val["types"],
              DNSTypes |-> flat.val["dnsTypes"],
              Audit |-> audit.val,
              DNSRecords |-> recs.r],
     err |-> FirstErr(<<flat.err, audit.err, recs.err>>)]

\* the dnsRecords member goes through DNSRecords.UnmarshalJSON
decodeRecords(v) ==
    IF v.k = "obj" /\ Lookup(v, "dnsRecords") # JInvalid
    THEN UnmarshalJSON(EmptyRecords, Lookup(v, "dnsRecords"))
    ELSE [r |-> EmptyRecords, err |-> NoErr]

\* json decoding of the DNSData member into DNSLookupResponse
decodeLookup(v) ==
    lookupOf(DecodeStruct(v, DNSLookupResponseFields), decodeAudit(v),
             decodeRecords(v))

\* json decoding of the DNSData member when the body has one
decodeDNSData(doc) ==
    IF doc.k = "obj" /\ Lookup(doc, "DNSData") # JInvalid
    THEN decodeLookup(Lookup(doc, "DNSData"))
    ELSE [val |-> ZeroLookup, err |-> NoErr]

\* var response apiResponse
ZeroAPIResponse == [DNSLookupResponse |-> ZeroLookup, Code |-> "", Message |-> ""]

\* what parse returns for the decoded parts of the body
parsed(raw, top, dns, msg) ==
    CASE raw.got = "none" ->
           [nil |-> TRUE, val |-> ZeroAPIResponse,
            err |-> Wrapped("cannot parse response", "EOF")]
      [] ~Valid(raw.doc) ->
           [nil |-> TRUE, val |-> ZeroAPIResponse,
            err |-> Wrapped("cannot parse response", "invalid character")]
      [] raw.got = "part" ->
           [nil |-> TRUE, val |-> ZeroAPIResponse,
            err |-> Wrapped("cannot parse response", "unexpected EOF")]
      [] FirstErr(<<top.err, dns.err, msg.err>>) # NoErr ->
           [nil |-> TRUE, val |-> ZeroAPIResponse,
            err |-> Wrapped("cannot parse response",
                            FirstErr(<<top.err, dns.err, msg.err>>).e)]
      [] OTHER ->
           [nil |-> FALSE,
            val |-> [DNSLookupResponse |-> dns.val,
                     Code |-> msg.val["errorCode"].s,
                     Message |-> msg.val["msg"].s],
            err |-> NoError]

\* parse: the first JSON value of the bytes is decoded into apiResponse
parse(raw) ==
    parsed(raw, DecodeStruct(raw.doc, <<>>), decodeDNSData(raw.doc),
           decodeSub(raw.doc, "ErrorMessage", ErrorMessageFields))

\* http.Response as the code reads it, and the Response wrapper
NilHTTP == [nil |-> TRUE, StatusCode |-> 0]
HTTPResponse(status) == [nil |-> FALSE, StatusCode |-> status]
NilResponse == [nil |-> TRUE, Response |-> NilHTTP, Body |-> NoBytes]
Response(http, body) == [nil |-> FALSE, Response |-> http, Body |-> body]
NilLookup == [nil |-> TRUE, val |-> ZeroLookup]

\* Get that returns the decoded lookup response beside the remote error
getParsedKeepsLookup(resp, dnsLookupResp) ==
    CASE dnsLookupResp.err # NoError ->
           [dnsLookupResponse |-> NilLookup, resp |-> resp, err |-> dnsLookupResp.err]
      [] dnsLookupResp.val.Message # "" \/ dnsLookupResp.val.Code # "" ->
           [dnsLookupResponse |-> [nil |-> FALSE, val |-> dnsLookupResp.val.DNSLookupResponse],
            resp |-> NilResponse,
            err |-> ErrorMessage(dnsLookupResp.val.Code, dnsLookupResp.val.Message)]
      [] OTHER ->
           [dnsLookupResponse |-> [nil |-> FALSE, val |-> dnsLookupResp.val.DNSLookupResponse],
            resp |-> resp, err |-> NoError]

\* Get that looks at the code of the error envelope only
getParsedCodeOnly(resp, dnsLookupResp) ==
    CASE dnsLookupResp.err # NoError ->
           [dnsLookupResponse |-> NilLookup, resp |-> resp, err |-> dnsLookupResp.err]
      [] dnsLookupResp.val.Code # "" ->
           [dnsLookupResponse |-> NilLookup, resp |-> NilResponse,
            err |-> ErrorMessage(dnsLookupResp.val.Code, dnsLookupResp.val.Message)]
      [] OTHER ->
           [dnsLookupResponse |-> [nil |-> FALSE, val |-> dnsLookupResp.val.DNSLookupResponse],
            resp |-> resp, err |-> NoError]

\* Get, from the return of parse on
getParsed(resp, dnsLookupResp) ==
    CASE dnsLookupResp.err # NoError ->
           [dnsLookupResponse |-> NilLookup, resp |-> resp, err |-> dnsLookupResp.err]
      [] dnsLookupResp.val.Message # "" \/ dnsLookupResp.val.Code # "" ->
           [dnsLookupResponse |-> NilLookup, resp |-> NilResponse,
            err |-> ErrorMessage(dnsLookupResp.val.Code, dnsLookupResp.val.Message)]
      [] OTHER ->
           [dnsLookupResponse |-> [nil |-> FALSE, val |-> dnsLookupResp.val.DNSLookupResponse],
            resp |-> resp, err |-> NoError]

\* Get that checks the status before it parses, as GetRaw does
GetChecksStatus(resp, reqErr) ==
    CASE reqErr # NoError ->
           [dnsLookupResponse |-> NilLookup, resp |-> resp, err |-> reqErr]
      [] checkResponse(resp.Response.StatusCode) # NoError ->
           [dnsLookupResponse |-> NilLookup, resp |-> resp,
            err |-> checkResponse(resp.Response.StatusCode)]
      [] OTHER -> getParsed(resp, parse(resp.Body))

\* Get that turns a lookup that worked into a bad-status error when the
\* status is outside 200..299
GetRejectsBadStatus(resp, reqErr) ==
    CASE reqErr # NoError ->
           [dnsLookupResponse |-> NilLookup, resp |-> resp, err |-> reqErr]
      [] getParsed(resp, parse(resp.Body)).err = NoError
         /\ checkResponse(resp.Response.StatusCode) # NoError ->
           [dnsLookupResponse |-> NilLookup, resp |-> resp,
            err |-> checkResponse(resp.Response.StatusCode)]
      [] OTHER -> getParsed(resp, parse(resp.Body))

\* Get, from the return of request on
Get(resp, reqErr) ==
    IF reqErr # NoError
    THEN [dnsLookupResponse |-> NilLookup, resp |-> resp, err |-> reqErr]
    ELSE getParsed(resp, parse(resp.Body))

\* GetRaw that returns no Response beside a bad status
GetRawNilOnBadStatus(resp, reqErr) ==
    CASE reqErr # NoError ->
           [dnsLookupResponse |-> NilLookup, resp |-> resp, err |-> reqErr]
      [] checkResponse(resp.Response.StatusCode) # NoError ->
           [dnsLookupResponse |-> NilLookup, resp |-> NilResponse,
            err |-> checkResponse(resp.Response.StatusCode)]
      [] OTHER -> [dnsLookupResponse |-> NilLookup, resp |-> resp, err |-> NoError]

\* GetRaw that returns no Response beside an error of request
GetRawNilOnError(resp, reqErr) ==
    CASE reqErr # NoError ->
           [dnsLookupResponse |-> NilLookup, resp |-> NilResponse, err |-> reqErr]
      [] checkResponse(resp.Response.StatusCode) # NoError ->
           [dnsLookupResponse |-> NilLookup, resp |-> resp,
            err |-> checkResponse(resp.Response.StatusCode)]
      [] OTHER -> [dnsLookupResponse |-> NilLookup, resp |-> resp, err |-> NoError]

\* GetRaw, from the return of request on
GetRaw(resp, reqErr) ==
    CASE reqErr # NoError ->
           [dnsLookupResponse |-> NilLookup, resp |-> resp, err |-> reqErr]
      [] checkResponse(resp.Response.StatusCode) # NoError ->
           [dnsLookupResponse |-> NilLookup, resp |-> resp,
            err |-> checkResponse(resp.Response.StatusCode)]
      [] OTHER -> [dnsLookupResponse |-> NilLookup, resp |-> resp, err |-> NoError]

----------------------------------------------------------------------------
(* the calls the model makes and the answers of the server *)

MaxOpts == 2

DomainNames == {"whoisxmlapi.com", "example.org"}
Options == {OptionOutputFormat("xml"), OptionOutputFormat("JSON"),
            OptionType("a,mx"), OptionType("ns"), OptionCallback("func")}
Statuses == {199, 200, 299, 300, 499, 500}

lookupData ==
    <<Member("domainName", JStr("whoisxmlapi.com")),
      Member("types", JArr(<<JNum(1)>>)), Member("dnsTypes", JStr("A")),
      Member("audit", JObj(<<Member("createdDate", JStr("2022-07-12 11:46:25 UTC")),
                             Member("updatedDate", JStr("2022-07-12 11:46:25 UTC"))>>)),
      Member("dnsRecords", JArr(<<RecA2>>))>>
errorMessage(code, msg) ==
    Member("ErrorMessage", JObj(<<Member("errorCode", JStr(code)), Member("msg", JStr(msg))>>))

\* the body of a lookup that worked
DocOK == Spaced(JObj(<<Member("DNSData", JObj(lookupData))>>))
\* an error envelope
DocError == JObj(<<errorMessage("TEST_CODE", "test error message")>>)
\* error envelopes with a code only and a message only
DocCodeOnly == JObj(<<Member("ErrorMessage", JObj(<<Member("errorCode", JStr("TEST_CODE"))>>))>>)
DocMsgOnly == JObj(<<Member("ErrorMessage", JObj(<<Member("msg", JStr("test error message"))>>))>>)
\* lookup data together with an error envelope
DocBoth == JObj(<<Member("DNSData", JObj(lookupData)), errorMessage("TEST_CODE", "test error message")>>)
\* lookup data together with an empty error object
DocEmptyError == JObj(<<Member("DNSData", JObj(lookupData)), errorMessage("", "")>>)
\* a body that is not JSON
DocUnparsable == JInvalid
\* JSON whose dnsRecords is not an array
DocBadRecords == JObj(<<Member("DNSData", JObj(<<Member("dnsRecords", RecA2)>>))>>)

Docs == {DocOK, DocError, DocCodeOnly, DocMsgOnly, DocBoth, DocEmptyError,
         DocUnparsable, DocBadRecords}

\* how much of the body the server sends, and whether it declared the full
\* length in Content-Length
Deliveries ==
    {[sends |-> "full", declared |-> TRUE], [sends |-> "part", declared |-> FALSE],
     [sends |-> "part", declared |-> TRUE], [sends |-> "none", declared |-> FALSE]}

NoCall == [mode |-> "", domainName |-> "", opts |-> <<>>]
NoAnswer == [doc |-> JInvalid, sends |-> "none", declared |-> FALSE]
NoResult == [dnsLookupResponse |-> NilLookup, resp |-> NilResponse, err |-> NoError]
NoHistory ==
    [exchanges |-> 0, exchangeCause |-> "", readCause |-> "", closes |-> 0,
     closeFailed |-> FALSE]

\* io.Copy that does not notice a body shorter than declared
copyErrIgnoresLength(answer) == ""

\* io.Copy on the body of the answer: fewer bytes than Content-Length declared
\* is an unexpected EOF; a body that ends without a declared length is read
\* to its end without error
copyErr(answer) ==
    IF answer.declared /\ answer.sends # "full" THEN "unexpected EOF" ELSE ""

\* NewClient: the Client and its service
NewClient(apiKey, apiBaseURL) ==
    [apiKey |-> apiKey, baseURL |-> apiBaseURL, userAgent |-> "dns-lookup-go/1.0.0"]

\* NewClient(apiKey, ClientParams{...}) as the tests make it
ClientInit ==
    /\ cfg = NewClient("at_LoremIpsumDolorSitAmetConsect", "/DNSLookup")
    /\ pc = "idle"
    /\ call = NoCall
    /\ query = <<>>
    /\ srv = NoAnswer
    /\ httpResp = NilHTTP
    /\ buf = NoBytes
    /\ doErr = NoError
    /\ result = NoResult
    /\ hist = NoHistory

\* Get(ctx, domainName, opts...) up to the call of Do
CallGet(domainName, opts) ==
    /\ pc = "idle"
    /\ call' = [mode |-> "Get", domainName |-> domainName, opts |-> opts]
    /\ query' = requestQuery(cfg.apiKey, domainName, optsJSON(opts))
    /\ pc' = "built"
    /\ UNCHANGED <<cfg, srv, httpResp, buf, doErr, result, hist>>
    /\ UNCHANGED nonClient

\* GetRaw(ctx, domainName, opts...) up to the call of Do
CallGetRaw(domainName, opts) ==
    /\ pc = "idle"
    /\ call' = [mode |-> "GetRaw", domainName |-> domainName, opts |-> opts]
    /\ query' = requestQuery(cfg.apiKey, domainName, opts)
    /\ pc' = "built"
    /\ UNCHANGED <<cfg, srv, httpResp, buf, doErr, result, hist>>
    /\ UNCHANGED nonClient

\* Do: c.client.Do(req) fails
ExchangeFails(cause) ==
    /\ pc = "built"
    /\ doErr' = Wrapped("cannot execute request", cause)
    /\ httpResp' = NilHTTP
    /\ pc' = "returned"
    /\ call' = [call EXCEPT !.opts = <<>>]
    /\ hist' = [hist EXCEPT !.exchanges = @ + 1, !.exchangeCause = cause]
    /\ UNCHANGED <<cfg, query, srv, buf, result>>
    /\ UNCHANGED nonClient

\* Do: c.client.Do(req) returns the response of the server
Exchange(status, doc, delivery) ==
    /\ pc = "built"
    /\ httpResp' = HTTPResponse(status)
    /\ srv' = [doc |-> doc, sends |-> delivery.sends, declared |-> delivery.declared]
    /\ pc' = "received"
    /\ call' = [call EXCEPT !.opts = <<>>]
    /\ hist' = [hist EXCEPT !.exchanges = @ + 1]
    /\ UNCHANGED <<cfg, query, buf, doErr, result>>
    /\ UNCHANGED nonClient

\* Do: io.Copy(v, resp.Body) reads to the end of what the server sends; fewer
\* bytes than Content-Length declared is an unexpected EOF
ReadBody ==
    /\ pc = "received"
    /\ buf' = IF srv.sends = "none" THEN NoBytes ELSE Bytes(srv.doc, srv.sends)
    /\ doErr' = IF copyErr(srv) # ""
                THEN Wrapped("cannot read response", copyErr(srv))
                ELSE NoError
    /\ hist' = [hist EXCEPT !.readCause = copyErr(srv)]
    /\ pc' = "read"
    /\ UNCHANGED <<cfg, call, query, srv, httpResp, result>>
    /\ UNCHANGED nonClient

\* Do: the read breaks off (the connection is lost, the context ends) with
\* got of the body in the buffer
ReadBodyFails(got, cause) ==
    /\ pc = "received"
    /\ got = "none" \/ srv.sends # "none"
    /\ buf' = IF got = "none" THEN NoBytes ELSE Bytes(srv.doc, got)
    /\ doErr' = Wrapped("cannot read response", cause)
    /\ hist' = [hist EXCEPT !.readCause = cause]
    /\ pc' = "read"
    /\ UNCHANGED <<cfg, call, query, srv, httpResp, result>>
    /\ UNCHANGED nonClient

\* the deferred function of Do with a close failure that replaces any error
deferredCloseOverrides(e, closeFails) ==
    IF closeFails THEN Wrapped("cannot close response", "close") ELSE e

\* the deferred function of Do: err after resp.Body.Close(), from err before
deferredClose(e, closeFails) ==
    IF e = NoError /\ closeFails THEN Wrapped("cannot close response", "close") ELSE e

\* Do: the deferred resp.Body.Close(), then Do returns
CloseBody(closeFails) ==
    /\ pc = "read"
    /\ doErr' = deferredClose(doErr, closeFails)
    /\ hist' = [hist EXCEPT !.closes = @ + 1, !.closeFailed = closeFails]
    /\ pc' = "returned"
    /\ UNCHANGED <<cfg, call, query, srv, httpResp, buf, result>>
    /\ UNCHANGED nonClient

\* request wraps what Do returned, and Get or GetRaw finishes
Finish ==
    /\ pc = "returned"
    /\ result' = IF call.mode = "Get"
                 THEN Get(Response(httpResp, buf), doErr)
                 ELSE GetRaw(Response(httpResp, buf), doErr)
    /\ pc' = "done"
    /\ UNCHANGED <<cfg, call, query, srv, httpResp, buf, doErr, hist>>
    /\ UNCHANGED nonClient

\* the caller has the result; the client is ready for the next call
Return ==
    /\ pc = "done"
    /\ pc' = "idle"
    /\ call' = NoCall
    /\ query' = <<>>
    /\ srv' = NoAnswer
    /\ httpResp' = NilHTTP
    /\ buf' = NoBytes
    /\ doErr' = NoError
    /\ result' = NoResult
    /\ hist' = NoHistory
    /\ UNCHANGED cfg
    /\ UNCHANGED nonClient

ClientNext ==
    \/ \E d \in DomainNames, opts \in SeqsUpTo(Options, MaxOpts) : CallGet(d, opts)
    \/ \E d \in DomainNames, opts \in SeqsUpTo(Options, MaxOpts) : CallGetRaw(d, opts)
    \/ \E cause \in {"dial", "context canceled"} : ExchangeFails(cause)
    \/ \E status \in Statuses, doc \in Docs, delivery \in Deliveries :
           Exchange(status, doc, delivery)
    \/ ReadBody
    \/ \E got \in {"none", "part"}, cause \in {"connection reset", "context canceled"} :
           ReadBodyFails(got, cause)
    \/ \E closeFails \in BOOLEAN : CloseBody(closeFails)
    \/ Finish
    \/ Return

----------------------------------------------------------------------------
(* concurrent callers of one Client: each call has its own locals (req, q, b,
   resp, err); the url.URL objects live on the heap, that of the service at
   BaseURL and that of the request of caller c at c *)

MaxCallers == 2
Callers == 1..MaxCallers

\* the address of service.baseURL
BaseURL == 0
NoURL == [Path |-> "", RawQuery |-> <<>>]

NilRequest == [nil |-> TRUE, URL |-> BaseURL]
\* Client.NewRequest with a request that keeps u instead of parsing u.String()
NewRequestSharesURL(u, fresh) == [nil |-> FALSE, URL |-> u]

\* Client.NewRequest: http.NewRequest parses u.String() into a url.URL of the
\* request's own, at the address fresh
NewRequest(u, fresh) == [nil |-> FALSE, URL |-> fresh]

\* the call lists of the concurrent callers and the answers they get
KOptions == {<<>>, <<OptionOutputFormat("xml")>>}
KAnswers == {[status |-> 200, doc |-> DocOK], [status |-> 500, doc |-> DocError]}

IdleCall ==
    [pc |-> "idle", mode |-> "", domainName |-> "", opts |-> <<>>,
     req |-> NilRequest, sent |-> <<>>, exchanges |-> 0, resp |-> NilHTTP,
     b |-> NoBytes, err |-> NoError, result |-> NoResult]

ConcurrentInit ==
    /\ calls = [c \in Callers |-> IdleCall]
    /\ urls = [a \in {BaseURL} \cup Callers |->
                   IF a = BaseURL THEN [Path |-> cfg.baseURL, RawQuery |-> <<>>]
                   ELSE NoURL]

\* the options request gets from the entry point
optsOf(k) == IF k.mode = "Get" THEN optsJSON(k.opts) ELSE k.opts

\* Get or GetRaw is entered and request calls newRequest
KNewRequest(c, mode, domainName, opts) ==
    /\ calls[c].pc = "idle"
    /\ LET req == NewRequest(BaseURL, c)
       IN /\ calls' = [calls EXCEPT ![c] =
                 [@ EXCEPT !.pc = "new", !.mode = mode, !.domainName = domainName,
                           !.opts = opts, !.req = req]]
          /\ urls' = [urls EXCEPT ![req.URL] =
                 [urls[BaseURL] EXCEPT !.RawQuery = newRequest(cfg.apiKey)]]
    /\ UNCHANGED nonConcurrent

\* request: q := req.URL.Query() ... req.URL.RawQuery = q.Encode()
KSetQuery(c) ==
    /\ calls[c].pc = "new"
    /\ urls' = [urls EXCEPT ![calls[c].req.URL].RawQuery =
                   withOptions(@, calls[c].domainName, optsOf(calls[c]))]
    /\ calls' = [calls EXCEPT ![c].pc = "built"]
    /\ UNCHANGED nonConcurrent

\* Do sends the request as its URL is now, and reads and closes the answer
KDo(c, answer) ==
    /\ calls[c].pc = "built"
    /\ calls' = [calls EXCEPT ![c] =
           [@ EXCEPT !.pc = "returned", !.sent = urls[calls[c].req.URL].RawQuery,
                     !.exchanges = @ + 1, !.resp = HTTPResponse(answer.status),
                     !.b = Bytes(answer.doc, "full")]]
    /\ UNCHANGED urls
    /\ UNCHANGED nonConcurrent

\* Do sends the request as its URL is now, and the exchange fails
KDoFails(c, cause) ==
    /\ calls[c].pc = "built"
    /\ calls' = [calls EXCEPT ![c] =
           [@ EXCEPT !.pc = "returned", !.sent = urls[calls[c].req.URL].RawQuery,
                     !.exchanges = @ + 1,
                     !.err = Wrapped("cannot execute request", cause)]]
    /\ UNCHANGED urls
    /\ UNCHANGED nonConcurrent

\* Get or GetRaw finishes
KFinish(c) ==
    /\ calls[c].pc = "returned"
    /\ calls' = [calls EXCEPT ![c] =
           [@ EXCEPT !.pc = "done",
                     !.result = IF calls[c].mode = "Get"
                                THEN Get(Response(calls[c].resp, calls[c].b), calls[c].err)
                                ELSE GetRaw(Response(calls[c].resp, calls[c].b), calls[c].err)]]
    /\ UNCHANGED urls
    /\ UNCHANGED nonConcurrent

\* the caller has the result; the locals and the request are gone
KReturn(c) ==
    /\ calls[c].pc = "done"
    /\ calls' = [calls EXCEPT ![c] = IdleCall]
    /\ urls' = [urls EXCEPT ![calls[c].req.URL] = NoURL]
    /\ UNCHANGED nonConcurrent

ConcurrentNext ==
    \/ \E c \in Callers, mode \in {"Get", "GetRaw"}, d \in DomainNames, opts \in KOptions :
           KNewRequest(c, mode, d, opts)
    \/ \E c \in Callers : KSetQuery(c)
    \/ \E c \in Callers, answer \in KAnswers : KDo(c, answer)
    \/ \E c \in Callers, cause \in {"dial"} : KDoFails(c, cause)
    \/ \E c \in Callers : KFinish(c)
    \/ \E c \in Callers : KReturn(c)

----------------------------------------------------------------------------
(* a Time value that JSON texts are decoded into and that is encoded *)

\* the JSON texts given to Time.UnmarshalJSON: every conforming timestamp, the
\* empty string, null, a number, ISO 8601, a day that does not exist
TimeInputs ==
    {JStr(text) : text \in ConformingTimes}
        \cup {JStr(""), JNull, JNum(5), JStr("2006-01-02T15:04:05-07:00"),
              JStr("2022-02-30 11:46:25 UTC")}

\* var v Time
TimeZero ==
    /\ tm = emptyTime
    /\ told = emptyTime
    /\ lit = JNull
    /\ terr = NoErr
    /\ enc = JNull
    /\ tstep = "new"

\* no option has been applied
NoOption == [fn |-> "", arg |-> ""]

OptionZero ==
    /\ values = NoValues
    /\ vprev = NoValues
    /\ applied = NoOption

TimeInit ==
    /\ DecoderInit /\ ClientInit /\ ConcurrentInit /\ OptionZero
    /\ local \in Locations
    /\ TimeZero

\* var v Time
NewTime ==
    /\ tm' = emptyTime
    /\ told' = emptyTime
    /\ lit' = JNull
    /\ terr' = NoErr
    /\ enc' = JNull
    /\ tstep' = "new"
    /\ UNCHANGED local
    /\ UNCHANGED nonTime

\* json.Unmarshal(b, &v)
TimeUnmarshal(b) ==
    /\ told' = tm
    /\ tm' = TimeUnmarshalJSON(b, tm, "").val
    /\ terr' = TimeUnmarshalJSON(b, tm, "").err
    /\ lit' = b
    /\ enc' = JNull
    /\ tstep' = "Unmarshal"
    /\ UNCHANGED local
    /\ UNCHANGED nonTime

\* json.Marshal(v)
TimeMarshal ==
    /\ enc' = TimeMarshalJSON(tm)
    /\ tstep' = "Marshal"
    /\ UNCHANGED <<local, tm, told, lit, terr>>
    /\ UNCHANGED nonTime

TimeNext ==
    \/ NewTime
    \/ \E b \in TimeInputs : TimeUnmarshal(b)
    \/ TimeMarshal

----------------------------------------------------------------------------
(* a url.Values that options are applied to one after the other *)

\* the url.Values an option may meet: empty, as request has it when the
\* options run, and with several values under the keys the options write
ValuesInputs ==
    {NoValues,
     [NoValues EXCEPT !["apiKey"] = <<"at_LoremIpsumDolorSitAmetConsect">>,
                      !["domainName"] = <<"whoisxmlapi.com">>,
                      !["type"] = <<"_all">>],
     [NoValues EXCEPT !["apiKey"] = <<"at_LoremIpsumDolorSitAmetConsect">>,
                      !["type"] = <<"A", "NS">>,
                      !["outputFormat"] = <<"XML", "JSON">>,
                      !["callback"] = <<"f", "g">>]}

OptionInit ==
    /\ DecoderInit /\ ClientInit /\ ConcurrentInit /\ local = "UTC" /\ TimeZero
    /\ values \in ValuesInputs
    /\ vprev = values
    /\ applied = NoOption

\* opt(v)
ApplyOption(opt) ==
    /\ vprev' = values
    /\ values' = Apply(opt, values)
    /\ applied' = opt
    /\ UNCHANGED nonOption

OptionNext == \E opt \in Options : ApplyOption(opt)

----------------------------------------------------------------------------
(* the specifications: the decoder, one call of the client, concurrent calls,
   the Time codec, the options *)

Init ==
    DecoderInit /\ ClientInit /\ ConcurrentInit /\ local = "UTC" /\ TimeZero /\ OptionZero

DecoderSpec == Init /\ [][DecoderNext]_vars
ClientSpec == Init /\ [][ClientNext]_vars
ConcurrentSpec == Init /\ [][ConcurrentNext]_vars
TimeSpec == TimeInit /\ [][TimeNext]_vars
OptionSpec == OptionInit /\ [][OptionNext]_vars

----------------------------------------------------------------------------
(* properties of the decoder *)

KnownTag(t) == actualDNSType(t) # NilShape
TagOf(e) == e.CommonFields["dnsType"].s
EnvelopeOf(x) == [name \in FieldNames(commonFields) |-> x[name]]

RECURSIVE SumLens(_, _)
SumLens(typed, S) ==
    IF S = {} THEN 0
    ELSE LET t == CHOOSE x \in S : TRUE IN Len(typed[t]) + SumLens(typed, S \ {t})

\* the last operation decoded a JSON array into an empty collection
DecodedArray ==
    /\ op \in {"Unmarshal", "Redecode"}
    /\ pre = EmptyRecords
    /\ Valid(data)
    /\ data.k = "arr"

ParsedOf(t) ==
    SelectSeq(r.All, LAMBDA e : e.ParseError = NoErr /\ TagOf(e) = t /\ KnownTag(t))

\* C2: after an array is decoded into an empty collection, the typed list of
\* tag t holds exactly the records of All whose tag is t, is a known tag, and
\* whose entry has no ParseError, in the order they have in All, each as the
\* decoded concrete shape; the lengths of the typed lists sum to at most
\* Len(All).
C2_TypedListsMatchAll ==
    DecodedArray =>
        /\ \A t \in TypedSlices :
             /\ Len(r.typed[t]) = Len(ParsedOf(t))
             /\ \A k \in 1..Len(r.typed[t]) :
                  /\ k <= Len(ParsedOf(t))
                  /\ EnvelopeOf(r.typed[t][k]) = ParsedOf(t)[k].CommonFields
                  /\ r.typed[t][k] = DecodeStruct(ParsedOf(t)[k].Raw, actualDNSType(t)).val
        /\ SumLens(r.typed, TypedSlices) <= Len(r.All)

C2_Witness ==
    /\ DecodedArray
    /\ Len(r.All) = 3
    /\ Len(r.typed["A"]) = 2
    /\ r.typed["A"][1]["address"] # r.typed["A"][2]["address"]
    /\ r.All[2].ParseError # NoErr
    /\ TagOf(r.All[2]) = "A"

\* C3: an element whose envelope decodes and whose dnsType is not a known tag
\* (also when it is missing or empty) gets an All entry with the decoded
\* envelope, its raw text and ParseError = ErrUnsupportedDNSType, and no
\* typed list holds a record of an unknown tag.
C3_UnknownTagSentinel ==
    DecodedArray =>
        /\ \A i \in 1..Len(data.m) :
             LET e == data.m[i].val
                 env == DecodeStruct(e, commonFields)
             IN (env.err = NoErr /\ ~KnownTag(env.val["dnsType"].s)) =>
                    /\ i <= Len(r.All)
                    /\ r.All[i] = DNSRecord(env.val, e, ErrUnsupportedDNSType)
        /\ \A t \in TypedSlices : \A k \in 1..Len(r.typed[t]) :
             KnownTag(r.typed[t][k]["dnsType"].s)
        /\ SumLens(r.typed, TypedSlices) =
             Cardinality({i \in 1..Len(r.All) :
                             r.All[i].ParseError = NoErr /\ KnownTag(TagOf(r.All[i]))})

C3_Witness ==
    /\ DecodedArray
    /\ Len(data.m) = 3
    /\ data.m[1].val = RecUnknown
    /\ data.m[2].val = RecNoTag
    /\ data.m[3].val = RecA1
    /\ r.All[1].ParseError = ErrUnsupportedDNSType
    /\ r.All[1].CommonFields["dnsType"].s = "SPF"
    /\ r.All[2].ParseError = ErrUnsupportedDNSType
    /\ SumLens(r.typed, TypedSlices) = 1

\* the last operation was UnmarshalJSON of a JSON text
Decoded == op = "Unmarshal" /\ Valid(data)

\* C4 as stated: a top-level value that is not an array (an object, a string,
\* a number, a boolean or null) makes UnmarshalJSON fail and adds no entry.
C4_NonArrayFails ==
    (Decoded /\ data.k \in {"obj", "str", "num", "bool", "null"}) =>
        /\ err # NoErr
        /\ r = pre

\* C4 as the code has it: an object, a string, a number or a boolean at the
\* top level makes UnmarshalJSON fail with a type error and adds no entry; a
\* top-level null is accepted like an empty array: no error, no entry added.
C4_NonArrayFailsButNull ==
    /\ (Decoded /\ data.k \in {"obj", "str", "num", "bool"}) =>
           /\ err.e = "UnmarshalTypeError"
           /\ r = pre
    /\ (Decoded /\ data.k = "null") =>
           /\ err = NoErr
           /\ r = pre

C4_Witness ==
    /\ Decoded
    /\ data.k = "obj"
    /\ err.e = "UnmarshalTypeError"
    /\ Len(pre.All) = 2
    /\ r = pre

\* C5 as stated: re-decoding the encoding of a decoded collection gives an
\* All list equal to the original in envelope and raw text, and entries
\* without error re-decode without error.
C5_RoundTrip ==
    op = "Redecode" =>
        /\ err = NoErr
        /\ Len(r.All) = Len(src.All)
        /\ \A i \in 1..Len(src.All) :
             /\ i <= Len(r.All)
             /\ r.All[i].CommonFields = src.All[i].CommonFields
             /\ r.All[i].Raw = src.All[i].Raw
             /\ (src.All[i].ParseError = NoErr => r.All[i].ParseError = NoErr)

\* C5 as the code has it: re-decoding the encoding of a decoded collection
\* into an empty collection returns no error and gives an All list of the
\* same length and order in which every entry has the zero envelope,
\* ParseError = ErrUnsupportedDNSType, and as Raw the encoded entry: an object
\* with the members CommonFields, raw and parseError whose raw is the original
\* raw text, compacted; no typed list gets a record.
C5_RoundTripWrapsEntries ==
    op = "Redecode" =>
        /\ err = NoErr
        /\ Len(r.All) = Len(src.All)
        /\ \A i \in 1..Len(src.All) :
             /\ i <= Len(r.All)
             /\ r.All[i].CommonFields = ZeroStruct(commonFields)
             /\ r.All[i].ParseError = ErrUnsupportedDNSType
             /\ r.All[i].Raw.k = "obj"
             /\ Keys(r.All[i].Raw) = <<"CommonFields", "raw", "parseError">>
             /\ Lookup(r.All[i].Raw, "raw") = Compact(src.All[i].Raw)
        /\ SumLens(r.typed, TypedSlices) = 0

C5_Witness ==
    /\ op = "Redecode"
    /\ Len(src.All) = 3
    /\ src.All[1].ParseError = NoErr
    /\ src.All[1].Raw.ws
    /\ src.All[2].ParseError # NoErr
    /\ Len(r.All) = 3

\* C6: MarshalJSON writes a JSON array with one object per All entry, in
\* order, whose members are CommonFields (the envelope), raw (the raw text)
\* and parseError (null exactly when the entry has no error), and nothing of
\* the typed lists; an empty collection is written as [] and not as null; an
\* empty array decodes to an empty collection.
C6_EncodesAllEntries ==
    /\ op = "Marshal" =>
           /\ out.k = "arr"
           /\ Len(out.m) = Len(src.All)
           /\ \A i \in 1..Len(src.All) :
                LET o == out.m[i].val
                    e == src.All[i]
                IN /\ o.k = "obj"
                   /\ Keys(o) = <<"CommonFields", "raw", "parseError">>
                   /\ Keys(Lookup(o, "CommonFields")) =
                        <<"type", "dnsType", "name", "ttl", "rRsetType", "rawText">>
                   /\ \A name \in FieldNames(commonFields) :
                        Lookup(Lookup(o, "CommonFields"), name) = e.CommonFields[name]
                   /\ Lookup(o, "raw") = Compact(e.Raw)
                   /\ (Lookup(o, "parseError") = JNull) <=> (e.ParseError = NoErr)
           /\ (src.All = <<>> => out = JArr(<<>>))
    /\ (DecodedArray /\ Len(data.m) = 0) => (r = EmptyRecords /\ err = NoErr)

C6_Witness ==
    /\ op = "Marshal"
    /\ Len(src.All) = 3
    /\ src.All[1].ParseError = NoErr
    /\ src.All[2].ParseError = ErrUnsupportedDNSType
    /\ src.All[3].ParseError.e = "UnmarshalTypeError"
    /\ Len(src.typed["A"]) = 1
    /\ Len(out.m) = 3

----------------------------------------------------------------------------
(* properties of the client *)

\* the values of the request that Do is called with
Sent == Query(query)
\* what one option alone writes into empty url.Values
Writes(opt) == Apply(opt, NoValues)
\* the positions of opts whose option sets key
Setters(opts, key) == {i \in 1..Len(opts) : Writes(opts[i])[key] # <<>>}
Last(S) == CHOOSE i \in S : \A j \in S : j <= i
\* the value of key after the defaults and then opts, the last writer winning
Expected(defaults, opts, key) ==
    IF Setters(opts, key) = {} THEN defaults[key]
    ELSE Writes(opts[Last(Setters(opts, key))])[key]
\* apiKey, domainName and type=_all
Defaults ==
    [NoValues EXCEPT !["apiKey"] = <<cfg.apiKey>>,
                     !["domainName"] = <<call.domainName>>,
                     !["type"] = <<"_all">>]

\* C7: the request of Get carries outputFormat=JSON exactly once whatever the
\* options of the caller are; the request of GetRaw carries the format the
\* last OptionOutputFormat of the caller set, and none when there is no such
\* option
C7_GetForcesJSON ==
    pc = "built" =>
        /\ call.mode = "Get" => Sent["outputFormat"] = <<"JSON">>
        /\ call.mode = "GetRaw" =>
               Sent["outputFormat"] = Expected(NoValues, call.opts, "outputFormat")

\* Get is called with OptionOutputFormat("xml") and the request says JSON
C7_Witness ==
    /\ pc = "built"
    /\ call.mode = "Get"
    /\ \E i \in 1..Len(call.opts) : call.opts[i] = OptionOutputFormat("xml")
    /\ Sent["outputFormat"] = <<"JSON">>

\* C8: the request of Get and of GetRaw carries the configured apiKey, the
\* given domainName and type=_all unless an option of the caller sets the
\* parameter; every parameter an option sets has the value the last such
\* option wrote, and no parameter has more than one value
C8_DefaultsThenOptionsInOrder ==
    pc = "built" =>
        /\ \A key \in {"apiKey", "domainName", "type", "callback"} :
               Sent[key] = Expected(Defaults, call.opts, key)
        /\ call.mode = "GetRaw" =>
               Sent["outputFormat"] = Expected(Defaults, call.opts, "outputFormat")
        /\ Sent["apiKey"] = <<cfg.apiKey>>
        /\ Sent["domainName"] = <<call.domainName>>
        /\ Setters(call.opts, "type") = {} => Sent["type"] = <<"_all">>

\* two type options in a row: the request carries the second
C8_Witness ==
    /\ pc = "built"
    /\ call.opts = <<OptionType("a,mx"), OptionType("ns")>>
    /\ Sent["type"] = <<"NS">>
    /\ Sent["apiKey"] = <<cfg.apiKey>>

\* the members of the error envelope in the body, "" when absent
EnvelopeString(doc, key) ==
    IF doc.k = "obj" /\ Lookup(doc, "ErrorMessage") # JInvalid
       /\ Lookup(doc, "ErrorMessage").k = "obj"
       /\ Lookup(Lookup(doc, "ErrorMessage"), key) # JInvalid
    THEN Lookup(Lookup(doc, "ErrorMessage"), key).s
    ELSE ""
\* Get got a response from Do and its body parsed
GetParsedBody ==
    /\ pc = "done"
    /\ call.mode = "Get"
    /\ doErr = NoError
    /\ parse(buf).err = NoError

\* C9: when the body parses and the error envelope has a non-empty errorCode
\* or msg, Get returns an ErrorMessage with that code and message and no
\* lookup response, whatever DNSData the body has; when both are empty Get
\* returns the decoded lookup response and no error
C9_ErrorEnvelopeWins ==
    GetParsedBody =>
        IF EnvelopeString(buf.doc, "errorCode") # "" \/ EnvelopeString(buf.doc, "msg") # ""
        THEN /\ result.err = ErrorMessage(EnvelopeString(buf.doc, "errorCode"),
                                          EnvelopeString(buf.doc, "msg"))
             /\ result.dnsLookupResponse.nil
        ELSE /\ result.err = NoError
             /\ ~result.dnsLookupResponse.nil
             /\ result.dnsLookupResponse.val = decodeDNSData(buf.doc).val

\* the body has lookup data and an error envelope: Get returns the error
C9_Witness ==
    /\ GetParsedBody
    /\ buf.doc = DocBoth
    /\ result.err = ErrorMessage("TEST_CODE", "test error message")
    /\ result.dnsLookupResponse.nil

\* GetRaw returned a bad-status error that carries the status of the response
BadStatus ==
    /\ result.err.kind = "ErrorResponse"
    /\ result.err.status = httpResp.StatusCode
\* GetRaw finished after c.client.Do and io.Copy both succeeded
GetRawAfterRead ==
    /\ pc = "done"
    /\ call.mode = "GetRaw"
    /\ doErr.kind \notin {"cannot execute request", "cannot read response"}

\* C10 as stated: after an exchange and a read that succeeded, GetRaw returns
\* the bad-status error exactly when the status is outside 200..299
C10_BadStatusIffOutside2xx ==
    GetRawAfterRead => (BadStatus <=> httpResp.StatusCode \notin 200..299)

\* C10: after an exchange, a read and a close of the body that succeeded,
\* GetRaw returns the bad-status error with the status of the response exactly
\* when the status is outside 200..299, and no error otherwise, whatever the
\* body is; when the close fails GetRaw returns that failure whatever the status
C10_BadStatusIffOutside2xxAfterClose ==
    GetRawAfterRead =>
        IF doErr = NoError
        THEN /\ BadStatus <=> httpResp.StatusCode \notin 200..299
             /\ httpResp.StatusCode \in 200..299 => result.err = NoError
        ELSE result.err = doErr /\ doErr.kind = "cannot close response"

\* a 499 answer with an error envelope: GetRaw returns the bad status 499
C10_Witness ==
    /\ GetRawAfterRead
    /\ doErr = NoError
    /\ httpResp.StatusCode = 499
    /\ buf.doc = DocError
    /\ result.err = ErrorResponse(499)

\* GetRaw returned a bad-status error
GetRawBadStatus ==
    /\ pc = "done"
    /\ call.mode = "GetRaw"
    /\ result.err.kind = "ErrorResponse"

\* C11 as stated: the bad-status error of GetRaw has a message, the body,
\* whenever the body is not empty
C11_BodyAttachedToError ==
    GetRawBadStatus /\ buf # NoBytes => result.err.msg # ""

\* C11: the bad-status error of GetRaw carries the status of the response and
\* an empty Message whatever the body is, so its text is the status alone; the
\* body is in the Body of the Response that GetRaw returns with the error
C11_BodyOnResponseNotOnError ==
    GetRawBadStatus =>
        /\ result.err.msg = ""
        /\ result.err.status = httpResp.StatusCode
        /\ ErrorResponseError(result.err)
               = <<"API failed with status code: ", httpResp.StatusCode>>
        /\ result.resp = Response(httpResp, buf)

\* a 500 answer with a body that is not empty: the error has no message
C11_Witness ==
    /\ GetRawBadStatus
    /\ httpResp.StatusCode = 500
    /\ buf = Bytes(DocUnparsable, "full")
    /\ result.err.msg = ""
    /\ result.resp.Body = buf

\* a call finished whose answer was cut short by the server
TruncatedAnswer ==
    /\ pc = "done"
    /\ srv.sends = "part"

NotAnEnvelope(b) ==
    \/ b.got # "full"
    \/ ~Valid(b.doc)
    \/ b.doc = DocBadRecords

\* C13: a call whose exchange failed returns 'cannot execute request' around
\* the cause, a call whose read failed returns 'cannot read response' around
\* the cause, and a Get that got the body from Do and cannot decode it returns
\* 'cannot parse response' around the decoder's error whatever the status is;
\* Get never returns a bad-status error and GetRaw never a parse error
C13_StageGivesTag ==
    pc = "done" =>
        /\ hist.exchangeCause # "" =>
               result.err = Wrapped("cannot execute request", hist.exchangeCause)
        /\ hist.exchangeCause = "" /\ hist.readCause # "" =>
               result.err = Wrapped("cannot read response", hist.readCause)
        /\ call.mode = "Get" /\ doErr = NoError /\ NotAnEnvelope(buf) =>
               /\ result.err.kind = "cannot parse response"
               /\ result.err.cause
                      \in {"EOF", "unexpected EOF", "invalid character", "UnmarshalTypeError"}
        /\ result.err.kind = "cannot parse response" =>
               call.mode = "Get" /\ doErr = NoError /\ NotAnEnvelope(buf)
        /\ result.err.kind = "cannot execute request" => hist.exchangeCause # ""
        /\ result.err.kind = "cannot read response" => hist.readCause # ""
        /\ call.mode = "Get" => result.err.kind # "ErrorResponse"

\* a 500 answer whose body is not JSON: Get fails with the decoder's error
C13_Witness ==
    /\ pc = "done"
    /\ call.mode = "Get"
    /\ httpResp.StatusCode = 500
    /\ buf = Bytes(DocUnparsable, "full")
    /\ result.err = Wrapped("cannot parse response", "invalid character")

\* C14: whatever Get returns, its lookup response is non-nil exactly when its
\* error is nil; an error of the exchange, the read, the close, the decoding
\* or the remote side comes with a nil lookup response
C14_LookupIffNoError ==
    pc = "done" /\ call.mode = "Get" =>
        /\ ~result.dnsLookupResponse.nil <=> result.err = NoError
        /\ result.err.kind \in {"cannot execute request", "cannot read response",
                                "cannot close response", "cannot parse response",
                                "ErrorMessage"}
               => result.dnsLookupResponse = NilLookup
        /\ result.err = NoError => result.dnsLookupResponse.val = decodeDNSData(buf.doc).val

\* a Get without error has a lookup response, here with the domain name of
\* the body, also under a 500 status
C14_Witness ==
    /\ pc = "done"
    /\ call.mode = "Get"
    /\ httpResp.StatusCode = 500
    /\ result.err = NoError
    /\ ~result.dnsLookupResponse.nil
    /\ result.dnsLookupResponse.val.DomainName = JStr("whoisxmlapi.com")

\* the context of the call ended before the response came or while the body
\* was read, and the call has finished
Cancelled ==
    /\ pc = "done"
    /\ hist.exchangeCause = "context canceled" \/ hist.readCause = "context canceled"

\* C15 as stated: a cancelled call fails with the cancellation error and
\* returns no lookup response and no partly read body
C15_CancelledNoPartialResult ==
    Cancelled =>
        /\ result.err.cause = "context canceled"
        /\ result.dnsLookupResponse.nil
        /\ result.resp.nil \/ result.resp.Body = NoBytes

\* C15: a cancelled call fails with the context's error, wrapped as 'cannot
\* execute request' when it ends before the response comes and as 'cannot read
\* response' when it ends during the read, and returns no lookup response; the
\* Response beside the error is non-nil and its Body holds what was read until
\* then: nothing before the response came, the part read otherwise
C15_CancelledReturnsBytesRead ==
    Cancelled =>
        /\ result.err = Wrapped(IF hist.exchangeCause # "" THEN "cannot execute request"
                                ELSE "cannot read response", "context canceled")
        /\ result.dnsLookupResponse.nil
        /\ ~result.resp.nil
        /\ result.resp.Body = buf
        /\ hist.exchangeCause # "" => result.resp.Body = NoBytes /\ result.resp.Response.nil

\* the context ends when a part of the body is read: GetRaw returns that part
C15_Witness ==
    /\ Cancelled
    /\ call.mode = "GetRaw"
    /\ hist.readCause = "context canceled"
    /\ buf.got = "part"
    /\ result.resp.Body = Bytes(srv.doc, "part")
    /\ result.err = Wrapped("cannot read response", "context canceled")

\* C16: under every interleaving of concurrent calls on one Client, no step
\* changes the configuration of the Client or the URL of the service, a call
\* makes one exchange and no more, the request it sends is the one the same
\* call builds alone, its result is the one Get or GetRaw computes from its
\* own answer, and nothing of a call is left when it has returned
C16_ConcurrentCallsIndependent ==
    /\ cfg = NewClient("at_LoremIpsumDolorSitAmetConsect", "/DNSLookup")
    /\ urls[BaseURL] = [Path |-> cfg.baseURL, RawQuery |-> <<>>]
    /\ \A c \in Callers :
           LET k == calls[c]
           IN /\ k.exchanges = IF k.pc \in {"returned", "done"} THEN 1 ELSE 0
              /\ k.pc \in {"returned", "done"} =>
                     k.sent = requestQuery(cfg.apiKey, k.domainName, optsOf(k))
              /\ k.pc = "done" =>
                     k.result = IF k.mode = "Get"
                                THEN Get(Response(k.resp, k.b), k.err)
                                ELSE GetRaw(Response(k.resp, k.b), k.err)
              /\ k.pc = "idle" => k = IdleCall /\ urls[c] = NoURL

\* two calls for different domains are done at once, each with its own request
C16_Witness ==
    /\ calls[1].pc = "done" /\ calls[2].pc = "done"
    /\ calls[1].mode = "Get" /\ calls[2].mode = "GetRaw"
    /\ calls[1].domainName # calls[2].domainName
    /\ Query(calls[1].sent)["domainName"] = <<calls[1].domainName>>
    /\ Query(calls[2].sent)["domainName"] = <<calls[2].domainName>>
    /\ calls[1].result.err = NoError
    /\ calls[2].result.err = ErrorResponse(500)

\* the last UnmarshalJSON decoded a conforming timestamp and MarshalJSON has
\* encoded the Time it gave
RoundTripped ==
    /\ tstep = "Marshal"
    /\ lit.k = "str"
    /\ lit.s \in ConformingTimes
    /\ terr = NoErr

\* what every reading of C17 shares: "" decodes to the zero Time, the zero
\* Time encodes as "", and a text that does not conform gives an error and
\* leaves the Time as it was
CodecEnds ==
    /\ tstep = "Unmarshal" /\ lit = JStr("") => terr = NoErr /\ tm = emptyTime
    /\ tstep = "Marshal" /\ tm = emptyTime => enc = JStr("")
    /\ tstep = "Unmarshal" /\ lit.k = "str" /\ lit.s \notin ConformingTimes \cup {""} =>
           terr # NoErr /\ tm = told

ZoneNotInForce(s) ==
    /\ s.zone # "UTC"
    /\ lookupName(local, s.zone).ok
    /\ lookup(local, s.date).name # s.zone

KeyOf(opt) ==
    CASE opt.fn = "OptionOutputFormat" -> "outputFormat"
      [] opt.fn = "OptionType" -> "type"
      [] OTHER -> "callback"
ValueOf(opt) == IF opt.fn = "OptionCallback" THEN opt.arg ELSE ToUpper(opt.arg)

\* C18: an option leaves its one parameter with exactly one value, the
\* upper-cased argument for OptionOutputFormat and OptionType and the argument
\* as given for OptionCallback, whatever was under the key before, and leaves
\* every other parameter as it was
C18_OptionSetsOneParameter ==
    applied # NoOption =>
        /\ values[KeyOf(applied)] = <<ValueOf(applied)>>
        /\ \A key \in QueryKeys \ {KeyOf(applied)} : values[key] = vprev[key]

\* OptionType("a,mx") on values with two types: one type is left, A,MX, and
\* the API key and the two callbacks are as before
C18_Witness ==
    /\ applied = OptionType("a,mx")
    /\ vprev["type"] = <<"A", "NS">>
    /\ values["type"] = <<"A,MX">>
    /\ values["apiKey"] = <<"at_LoremIpsumDolorSitAmetConsect">>
    /\ values["callback"] = <<"f", "g">>

\* Do has returned
DoReturned == pc \in {"returned", "done"}

\* C19: Do returns 'cannot close response' exactly when the close failed after
\* an exchange and a read that succeeded; when the read failed, its error is
\* returned as it was whether the close fails or not; the body is closed once
\* when a response was received and never when the exchange failed
C19_CloseFailureOnlyWithoutEarlierError ==
    /\ hist.closes <= 1
    /\ DoReturned =>
           /\ doErr.kind = "cannot close response" <=>
                  hist.closeFailed /\ hist.exchangeCause = "" /\ hist.readCause = ""
           /\ hist.readCause # "" => doErr = Wrapped("cannot read response", hist.readCause)
           /\ hist.exchangeCause # "" =>
                  doErr = Wrapped("cannot execute request", hist.exchangeCause)
           /\ hist.closes = IF httpResp.nil THEN 0 ELSE 1
           /\ httpResp.nil <=> hist.exchangeCause # ""

\* the read failed and then the close failed: Do returns the read error
C19_Witness ==
    /\ pc = "returned"
    /\ hist.closeFailed
    /\ hist.closes = 1
    /\ hist.readCause = "connection reset"
    /\ doErr = Wrapped("cannot read response", "connection reset")

\* GetRaw has sent its request and has finished
GetRawDone == pc = "done" /\ call.mode = "GetRaw" /\ hist.exchanges = 1

\* C20: in every outcome of a GetRaw that has sent its request (no response,
\* read failure, close failure, bad status, success) the Response returned is
\* non-nil, it carries the http.Response Do got, and its Body is what Do had
\* copied into the buffer: nothing when no response came, and a non-empty
\* body whenever bytes were read before a failure
C20_GetRawAlwaysReturnsResponse ==
    GetRawDone =>
        /\ ~result.resp.nil
        /\ result.resp.Response = httpResp
        /\ result.resp.Body = buf
        /\ hist.exchangeCause # "" => result.resp.Response.nil /\ result.resp.Body = NoBytes
        /\ buf.got # "none" => result.resp.Body # NoBytes
        /\ result.dnsLookupResponse.nil

\* the connection is lost when a part of the body of a 500 answer is read:
\* GetRaw returns the read error and the part
C20_Witness ==
    /\ GetRawDone
    /\ httpResp.StatusCode = 500
    /\ hist.readCause = "connection reset"
    /\ result.err = Wrapped("cannot read response", "connection reset")
    /\ ~result.resp.nil
    /\ result.resp.Body = Bytes(srv.doc, "part")

\* Get has finished a call in which Do got a response
GetAnswered == pc = "done" /\ call.mode = "Get" /\ ~httpResp.nil

\* what Get would have returned had the same body come with the status s
GetWithStatus(s) == Get(Response(HTTPResponse(s), buf), doErr)

\* C21: the lookup response and the error Get returns depend on what Do
\* returned beside the status only: with every other status and the same
\* body they are the same; a body that parses with an empty error envelope
\* gives the lookup response and no error under any status, and one with an
\* error envelope gives the remote error, never a bad-status error
C21_GetIgnoresStatus ==
    GetAnswered =>
        /\ \A s \in Statuses :
               /\ GetWithStatus(s).dnsLookupResponse = result.dnsLookupResponse
               /\ GetWithStatus(s).err = result.err
        /\ result.err.kind # "ErrorResponse"
        /\ doErr = NoError /\ parse(buf).err = NoError =>
               IF EnvelopeString(buf.doc, "errorCode") = ""
                  /\ EnvelopeString(buf.doc, "msg") = ""
               THEN /\ result.err = NoError
                    /\ ~result.dnsLookupResponse.nil
                    /\ result.dnsLookupResponse.val = decodeDNSData(buf.doc).val
               ELSE /\ result.err = ErrorMessage(EnvelopeString(buf.doc, "errorCode"),
                                                 EnvelopeString(buf.doc, "msg"))
                    /\ result.dnsLookupResponse.nil

\* a 500 answer whose body has lookup data and an empty error object: Get
\* returns the lookup response and no error
C21_Witness ==
    /\ GetAnswered
    /\ httpResp.StatusCode = 500
    /\ buf = Bytes(DocEmptyError, "full")
    /\ doErr = NoError
    /\ result.err = NoError
    /\ ~result.dnsLookupResponse.nil
    /\ result.dnsLookupResponse.val.DomainName = JStr("whoisxmlapi.com")

\* what parseRecord gives for each element of the array d, parsed on its own
ParsedAlone(d) == [i \in 1..Elems(d) |-> parseRecord(EmptyRecords, d.m[i].val)]

\* the All entries of the parsed elements ps
EntriesOf(ps) == [i \in 1..Len(ps) |-> ps[i].rec]

\* the records of tag t of the parsed elements ps from the i-th on, in order
RECURSIVE TypedOf(_, _, _)
TypedOf(ps, t, i) ==
    IF i > Len(ps) THEN <<>> ELSE ps[i].r.typed[t] \o TypedOf(ps, t, i + 1)

\* the text is refused before any element is looked at
FailsAtTopLevel(d) == ~Valid(d) \/ d.k \notin {"arr", "null"}

\* C22: a new collection is empty, and every UnmarshalJSON into a collection,
\* whatever it held, either returns no error and leaves All as it was followed
\* by the entries of the decoded array and every typed list as it was followed
\* by the records of its tag in that array, or fails at the top level and
\* leaves All and every typed list as they were; so after a sequence of
\* decodes the lists are the concatenations, in call order, of what each
\* decoded array gives
C22_UnmarshalAppends ==
    /\ op = "new" => r = EmptyRecords
    /\ op \in {"Unmarshal", "Redecode"} =>
           /\ err # NoErr <=> FailsAtTopLevel(data)
           /\ IF err = NoErr
              THEN LET ps == ParsedAlone(data) IN
                   /\ r.All = pre.All \o EntriesOf(ps)
                   /\ \A t \in TypedSlices :
                          r.typed[t] = pre.typed[t] \o TypedOf(ps, t, 1)
              ELSE r = pre

\* an array of two elements, one of them an A record, is decoded into a
\* collection that holds an A record of an earlier decode
C22_Witness ==
    /\ op = "Unmarshal"
    /\ err = NoErr
    /\ Len(pre.All) = 1
    /\ Len(pre.typed["A"]) = 1
    /\ Elems(data) = 2
    /\ Len(r.All) = 3
    /\ Len(r.typed["A"]) = 2
    /\ r.typed["A"][1] = pre.typed["A"][1]
    /\ r.All[1] = pre.All[1]
    /\ r.All[3].ParseError # NoErr

====
